---- MODULE Spec2Model ----
(***************************************************************************)
(* Model of the client-side debug-capture manager (DebugManager) and of    *)
(* the primitives it wraps: window.fetch, the four console methods, the    *)
(* two global error handlers, localStorage.setItem and the cookie setter.  *)
(*                                                                         *)
(* One action models one whole entry point of the code (a public method,   *)
(* an intercepted primitive, a timer callback, the continuation of an      *)
(* awaited network call).  The body of an entry point is written as a      *)
(* function on a record m that bundles the manager's fields, the wrapped   *)
(* globals and what the running call has produced so far; m.thrown carries *)
(* an exception that is propagating.                                       *)
(*                                                                         *)
(* The module also models truncateData on its own (TruncSpec) and the      *)
(* token usage store with its cookie, its clock and the statistics query   *)
(* (UsageSpec); the percentages of the query are computed as the doubles   *)
(* the engine computes.                                                    *)
(***************************************************************************)
EXTENDS Integers, Sequences, FiniteSets, TLC

\* ---------------------------------------------------------------- constants

\* private _maxLogs: number = 100
maxLogs == 100

\* The age horizon of the cleanup interval, 60 * 60 * 1000 ms, in clock units
\* of half an hour.
Hour == 2

\* ------------------------------------------------------------------- bounds

\* Entries appended in one behaviour of Spec (the ids 1..MaxAppends).
MaxAppends == 2
\* Nested wrappers of localStorage.setItem / active intervals in Spec.
MaxWraps == 2
\* Network calls made through the fetch wrapper in one behaviour of Spec.
MaxCalls == 2
\* Clock ticks (half hours) in one behaviour of BufSpec.
MaxClock == 2
\* Frames the engine lets _fetch recurse into itself before RangeError.
StackDepth == 1
\* Entries appended in one behaviour of BufSpec.
MaxFill == 103
\* In BufSpec the client clears, toggles, and lets time pass only while the buffer
\* is within EdgeWidth entries of empty or of full.
EdgeWidth == 1
\* How deep the arrays and objects handed to truncateData nest in TruncSpec.
MaxNest == 2
\* Events in the ledger of the usage store in UsageSpec.
MaxEvents == 2
\* Events in the ledger of the usage store in PersistSpec.
MaxLedger == 36

Levels == {"debug", "info", "warn", "error"}
Categories == {"network", "state", "user", "system", "error"}

\* The callbacks a client may register, and what each does when notified.
Listeners == {"L1", "Lthrow"}
Throws(l) == l = "Lthrow"

VARIABLES
    isEnabled,      \* _isEnabled
    logs,           \* _logs, index 1 is the head (most recent)
    listeners,      \* _listeners: a Set iterates in insertion order
    originalFetch,  \* _originalFetch: "null", "native" or "wrapper"
    cleanupInterval,\* the number of intervals started by setInterval and never cleared
    fetch,          \* window.fetch: "native" or "wrapper" (a bound _fetch)
    console,        \* console.log/info/warn/error: "native", "wrapper" or "timestamp"
    errorHandlers,  \* window.onerror / onunhandledrejection: "null" or "handler"
    setItemDepth,   \* how many debug wrappers are stacked on localStorage.setItem
    cookieWrapped,  \* whether document has the own cookie property with the debug setter
    persisted,      \* localStorage['devDebugEnabled']: "none", "true" or "false"
    wrapperMade,    \* whether wrappers were ever created (a caller may have kept a reference)
    calls,          \* the network calls made through the fetch wrapper
    now,            \* the wall clock, in half hours
    nextId,         \* the identity of the next LogEntry object
    cycled,         \* history: enableDebug and disableDebug were called strictly alternately
    run,            \* history: the ids appended since the buffer was last emptied or pruned
    last,           \* history: what the last operation was and what it produced
    isLoggingEnabled,   \* Settings: isLoggingEnabled
    originalConsoleLog, \* Settings: originalConsoleLog/Info/Warn/Error of the effect in
                        \* place: "none", "native" or "wrapper"
    trunc,          \* a value handed to truncateData and what it returned
    usageData,      \* tokenUsageStore: usageData
    limits,         \* tokenUsageStore: limits, a function from the providers that have one
    cookie,         \* the cookie 'tokenUsageData': the document and when it was written
    clock,          \* Date.now() of the usage store, in hours
    ulast           \* history: the last operation on the usage store and what it returned

debugVars == <<isEnabled, logs, listeners, originalFetch, cleanupInterval, fetch, console,
               errorHandlers, setItemDepth, cookieWrapped, persisted, wrapperMade, calls,
               now, nextId, cycled, run, last, isLoggingEnabled, originalConsoleLog>>

usageVars == <<usageData, limits, cookie, clock, ulast>>

vars == <<isEnabled, logs, listeners, originalFetch, cleanupInterval, fetch, console,
          errorHandlers, setItemDepth, cookieWrapped, persisted, wrapperMade, calls,
          now, nextId, cycled, run, last, isLoggingEnabled, originalConsoleLog, trunc,
          usageData, limits, cookie, clock, ulast>>

\* ------------------------------------------------------------ the record m

\* The state an entry point runs on: the variables, and the outputs of the run.
Cur ==
    [isEnabled |-> isEnabled, logs |-> logs, listeners |-> listeners,
     originalFetch |-> originalFetch, cleanupInterval |-> cleanupInterval,
     fetch |-> fetch, console |-> console, errorHandlers |-> errorHandlers,
     setItemDepth |-> setItemDepth, cookieWrapped |-> cookieWrapped,
     persisted |-> persisted, wrapperMade |-> wrapperMade, now |-> now, nextId |-> nextId,
     isLoggingEnabled |-> isLoggingEnabled, originalConsoleLog |-> originalConsoleLog,
     thrown |-> "none",     \* the exception propagating, "none" if none
     appended |-> <<>>,     \* the entries this run put into the buffer, in order
     delivered |-> <<>>,    \* <<listener, entry id>> for each listener invocation, in order
     sunk |-> 0,            \* calls of an original console method
     written |-> 0,         \* calls of the native storage / cookie write
     dispatched |-> 0,      \* calls of the native fetch
     ret |-> "none",        \* how a run of _fetch ended: "await" or what it rejected with
     frames |-> 0]          \* the runs of _log under way below the one at hand

Ids(entries) == [i \in 1..Len(entries) |-> entries[i].id]

Reverse(seq) == [i \in 1..Len(seq) |-> seq[Len(seq) + 1 - i]]

Commit(m, op) ==
    /\ UNCHANGED <<trunc, usageVars>>
    /\ run' = IF op = "construct" THEN <<>>
              ELSE IF op = "clearLogs" THEN Ids(m.appended)
              ELSE IF op \in {"disableDebug", "timer"} THEN Reverse(Ids(m.logs))
              ELSE run \o Ids(m.appended)
    /\ isEnabled' = m.isEnabled
    /\ logs' = m.logs
    /\ listeners' = m.listeners
    /\ originalFetch' = m.originalFetch
    /\ cleanupInterval' = m.cleanupInterval
    /\ fetch' = m.fetch
    /\ console' = m.console
    /\ errorHandlers' = m.errorHandlers
    /\ setItemDepth' = m.setItemDepth
    /\ cookieWrapped' = m.cookieWrapped
    /\ persisted' = m.persisted
    /\ wrapperMade' = m.wrapperMade
    /\ nextId' = m.nextId
    /\ isLoggingEnabled' = m.isLoggingEnabled
    /\ originalConsoleLog' = m.originalConsoleLog
    /\ last' = [op |-> op, thrown |-> m.thrown, appended |-> m.appended,
                delivered |-> m.delivered, sunk |-> m.sunk, written |-> m.written,
                dispatched |-> m.dispatched, enabledBefore |-> isEnabled]

\* --------------------------------------------------------- truncateData

\* private _maxDataSize: number = 50 * 1024
maxDataSize == 51200

\* The values a caller attaches to a log call.  A value is a string of n one-byte
\* characters that need no escape, a number of n digits, an array, an object with
\* keys of klen such characters, or an object that contains itself.
Str(n) == [t |-> "string", n |-> n]
Num(n) == [t |-> "number", n |-> n]
Arr(items) == [t |-> "array", items |-> items]
Obj(fields) == [t |-> "object", fields |-> fields]
Field(klen, v) == [klen |-> klen, v |-> v]
Circular == [t |-> "circular"]
\* The data of an entry logged without data, or with data that is falsy.
Undefined == [t |-> "undefined"]

\* data ? ... : undefined.  Of the values above only the empty string is falsy.
Truthy(v) == v.t # "undefined" /\ ~(v.t = "string" /\ v.n = 0)

\* Whether JSON.stringify(v) returns; it throws a TypeError on a circular structure.
RECURSIVE Serializable(_)
Serializable(v) ==
    IF v.t = "circular" THEN FALSE
    ELSE IF v.t = "array" THEN \A i \in 1..Len(v.items) : Serializable(v.items[i])
    ELSE IF v.t = "object" THEN \A i \in 1..Len(v.fields) : Serializable(v.fields[i].v)
    ELSE TRUE

RECURSIVE SumTo(_, _)
\* f[1] + ... + f[n]
SumTo(f, n) == IF n = 0 THEN 0 ELSE f[n] + SumTo(f, n - 1)

\* new TextEncoder().encode(JSON.stringify(v)).length
RECURSIVE SerializedSize(_)
SerializedSize(v) ==
    IF v.t = "string" THEN v.n + 2
    ELSE IF v.t = "number" THEN v.n
    ELSE IF v.t = "array"
         THEN LET k == Len(v.items)
              IN  2 + SumTo([i \in 1..k |-> SerializedSize(v.items[i])], k)
                    + (IF k > 0 THEN k - 1 ELSE 0)
    ELSE LET k == Len(v.fields)
         IN  2 + SumTo([i \in 1..k |-> v.fields[i].klen + 3 + SerializedSize(v.fields[i].v)], k)
               + (IF k > 0 THEN k - 1 ELSE 0)

\* The length of '... [truncated]'.
MarkerLen == 15

\* The first n elements of seq.
FirstN(seq, n) == SubSeq(seq, 1, IF n < Len(seq) THEN n ELSE Len(seq))

\* truncateData(obj, maxSize) of a serializable obj.  maxSize is the fraction
\* num / den: the recursive calls pass maxSize / 10 and maxSize / 4.
RECURSIVE TruncateData(_, _, _)
RECURSIVE TruncateFields(_, _, _, _, _, _)
TruncateData(v, num, den) ==
    IF SerializedSize(v) * den <= num THEN v
    ELSE IF v.t = "string"
         THEN LET half == num \div (2 * den)
              IN  Str((IF half < v.n THEN half ELSE v.n) + MarkerLen)
    ELSE IF v.t = "array"
         THEN Arr([i \in 1..Len(FirstN(v.items, 10)) |-> TruncateData(v.items[i], num, den * 10)])
    ELSE IF v.t = "object"
         THEN Obj(TruncateFields(v.fields, 1, <<>>, 0, num, den))
    ELSE v

\* The loop over Object.entries(obj): it ends when the sizes of the values kept so
\* far reach maxSize.
TruncateFields(fields, i, kept, currentSize, num, den) ==
    IF i > Len(fields) \/ currentSize * den >= num THEN kept
    ELSE LET tv == TruncateData(fields[i].v, num, den * 4)
         IN  TruncateFields(fields, i + 1, Append(kept, Field(fields[i].klen, tv)),
                            currentSize + SerializedSize(tv), num, den)

\* ----------------------------------------------------------------- _log

\* The callbacks of ListenSpec: "Lself" calls its own unsubscribe function when it
\* is notified, "Lkick" calls the unsubscribe function of "L1", and "Lecho" calls
\* debug.info.
Callbacks == {"L1", "Lself", "Lkick", "Lecho"}

\* The place of x in seq, 0 if it is not there.
IndexOf(seq, x) ==
    IF \E i \in 1..Len(seq) : seq[i] = x
    THEN CHOOSE i \in 1..Len(seq) : seq[i] = x
    ELSE 0

\* () => this._listeners.delete(callback)
Without(seq, x) == SelectSeq(seq, LAMBDA y : y # x)

\* this._listeners.forEach((listener) => listener(entry)): the listeners are called
\* in insertion order; an exception thrown by one ends the iteration.  forEach of a
\* Set visits what is in the set when it gets there: a callback deleted before its
\* turn is not called, and a deletion makes the iteration skip nobody else.  A
\* callback that logs runs _log, and with it another forEach, inside this one,
\* until the stack is full.
RECURSIVE NotifyFrom(_, _, _)
RECURSIVE LogRid(_, _, _, _, _)
NotifyFrom(m, e, i) ==
    IF i > Len(m.listeners) THEN m
    ELSE LET l == m.listeners[i]
             m1 == [m EXCEPT !.delivered = Append(@, <<l, e.id>>)]
             m2 == IF Throws(l) THEN [m1 EXCEPT !.thrown = "listener"]
                   ELSE IF l = "Lself" THEN [m1 EXCEPT !.listeners = Without(@, l)]
                   ELSE IF l = "Lkick" THEN [m1 EXCEPT !.listeners = Without(@, "L1")]
                   ELSE IF l = "Lecho"
                        THEN IF m1.frames >= StackDepth
                             THEN [m1 EXCEPT !.thrown = "RangeError"]
                             ELSE [LogRid([m1 EXCEPT !.frames = @ + 1], "info", "system",
                                          "echo", "-") EXCEPT !.frames = m1.frames]
                   ELSE m1
             at == IndexOf(m2.listeners, l)
         IN  IF m2.thrown # "none" THEN m2
             ELSE NotifyFrom(m2, e, IF at = 0 THEN i ELSE at + 1)

Notify(m, e) == NotifyFrom(m, e, 1)

\* Unshift without the pop: the buffer is never trimmed.
UnshiftNoPop(buf, e) == <<e>> \o buf

\* this._logs.unshift(entry); if (this._logs.length > this._maxLogs) this._logs.pop()
Unshift(buf, e) ==
    LET grown == <<e>> \o buf
    IN  IF Len(grown) > maxLogs THEN SubSeq(grown, 1, Len(grown) - 1) ELSE grown

\* _log with push where the code has unshift: the new entry goes to the tail and
\* the pop takes it off again when the buffer is full.
LogRidPush(m, level, category, message, rid) ==
    IF ~m.isEnabled THEN m
    ELSE LET e == [id |-> m.nextId, timestamp |-> m.now, level |-> level,
                   category |-> category, message |-> message, requestId |-> rid,
                   data |-> Undefined]
             grown == Append(m.logs, e)
             m1 == [m EXCEPT !.logs = IF Len(grown) > maxLogs
                                      THEN SubSeq(grown, 1, Len(grown) - 1) ELSE grown,
                             !.nextId = @ + 1, !.appended = Append(@, e)]
         IN  Notify(m1, e)

\* _log without the check of _isEnabled
LogRidUnguarded(m, level, category, message, rid) ==
    LET e == [id |-> m.nextId, timestamp |-> m.now, level |-> level,
              category |-> category, message |-> message, requestId |-> rid,
              data |-> Undefined]
        m1 == [m EXCEPT !.logs = Unshift(@, e), !.nextId = @ + 1,
                        !.appended = Append(@, e)]
    IN  Notify(m1, e)

\* _log(level, category, message): rid is the request id a network message
\* carries ("-" for the other messages)
LogRid(m, level, category, message, rid) ==
    IF ~m.isEnabled THEN m
    ELSE LET e == [id |-> m.nextId, timestamp |-> m.now, level |-> level,
                   category |-> category, message |-> message, requestId |-> rid,
                   data |-> Undefined]
             m1 == [m EXCEPT !.logs = Unshift(@, e), !.nextId = @ + 1,
                             !.appended = Append(@, e)]
         IN  Notify(m1, e)

Log(m, level, category, message) == LogRid(m, level, category, message, "-")

\* _log(level, category, message, data) with the data argument spelled out.
\* truncateData starts with JSON.stringify(obj), which throws a TypeError when obj
\* is circular: nothing around it catches, so _log ends there.
LogData(m, level, category, message, data) ==
    IF ~m.isEnabled THEN m
    ELSE IF ~Truthy(data) THEN LogRid(m, level, category, message, "-")
    ELSE IF ~Serializable(data) THEN [m EXCEPT !.thrown = "TypeError"]
    ELSE LET e == [id |-> m.nextId, timestamp |-> m.now, level |-> level,
                   category |-> category, message |-> message, requestId |-> "-",
                   data |-> TruncateData(data, maxDataSize, 1)]
             m1 == [m EXCEPT !.logs = Unshift(@, e), !.nextId = @ + 1,
                             !.appended = Append(@, e)]
         IN  Notify(m1, e)

\* -------------------------------------------------- the wrapped primitives

\* localStorage.setItem as it stands: d debug wrappers around the native method.
\* Each wrapper logs and then calls the method it captured when it was installed.
RECURSIVE SetItemAt(_, _, _, _)
SetItemAt(m, d, key, value) ==
    IF d = 0
    THEN [m EXCEPT !.written = @ + 1,
                   !.persisted = IF key = "devDebugEnabled" THEN value ELSE @]
    ELSE LET m1 == Log(m, "info", "state", "LocalStorage Update")
         IN  IF m1.thrown # "none" THEN m1 ELSE SetItemAt(m1, d - 1, key, value)

SetItem(m, key, value) == SetItemAt(m, m.setItemDepth, key, value)

\* document.cookie = value: the own property's setter if it is defined, which logs
\* and calls the setter of Document.prototype.
CookieSet(m) ==
    LET m1 == IF m.cookieWrapped THEN Log(m, "info", "state", "Cookie Update") ELSE m
    IN  IF m1.thrown # "none" THEN m1 ELSE [m1 EXCEPT !.written = @ + 1]

\* A console method called with args[0] = "console message" and rest = args.slice(1):
\* the wrapper logs at the method's level, with rest as the data, and then calls the
\* method of _originalConsole with args.
ConsoleLevel(method) == IF method = "log" THEN "debug" ELSE method

ConsoleWrapper(m, method, rest) ==
    LET m1 == LogData(m, ConsoleLevel(method), "system", "console message", Arr(rest))
    IN  IF m1.thrown # "none" THEN m1 ELSE [m1 EXCEPT !.sunk = @ + 1]

\* window.onerror / window.onunhandledrejection as installed by _setupErrorListeners
ErrorHandler(m, kind) ==
    Log(m, "error", "error",
        IF kind = "error" THEN "Uncaught Error" ELSE "Unhandled Promise Rejection")

\* ------------------------------------------------------ setup and teardown

\* _interceptNetworkCalls
InterceptNetworkCalls(m) ==
    [m EXCEPT !.originalFetch = m.fetch, !.fetch = "wrapper"]

\* _restoreNetworkCalls
RestoreNetworkCalls(m) ==
    IF m.originalFetch # "null"
    THEN [m EXCEPT !.fetch = m.originalFetch, !.originalFetch = "null"]
    ELSE m

\* _interceptConsole
InterceptConsole(m) == [m EXCEPT !.console = "wrapper"]

\* _restoreConsole: Object.assign(console, this._originalConsole)
RestoreConsole(m) == [m EXCEPT !.console = "native"]

\* _setupErrorListeners
SetupErrorListeners(m) == [m EXCEPT !.errorHandlers = "handler"]

\* _removeErrorListeners
RemoveErrorListeners(m) == [m EXCEPT !.errorHandlers = "null"]

\* _monitorStateChanges: wraps whatever localStorage.setItem is now, and defines the
\* own cookie property of document over the prototype's setter (the descriptor of
\* Document.prototype has a setter and is configurable, so the try does not fail).
MonitorStateChanges(m) ==
    [m EXCEPT !.setItemDepth = @ + 1, !.cookieWrapped = TRUE]

\* _setupDebugMode
SetupDebugMode(m) ==
    LET m1 == MonitorStateChanges(SetupErrorListeners(InterceptConsole(InterceptNetworkCalls(m))))
    IN  [m1 EXCEPT !.wrapperMade = TRUE]

\* _teardownDebugMode
TeardownDebugMode(m) ==
    RemoveErrorListeners(RestoreConsole(RestoreNetworkCalls(m)))

\* setInterval(...) in enableDebug
StartInterval(m) == [m EXCEPT !.cleanupInterval = @ + 1]

\* the part of disableDebug that deals with the interval: there is none
StopInterval(m) == m

\* An enableDebug that logs nothing of its own.
EnableDebugNoEntry(m) ==
    LET m1 == [m EXCEPT !.isEnabled = TRUE]
        m2 == SetItem(m1, "devDebugEnabled", "true")
    IN  IF m2.thrown # "none" THEN m2 ELSE StartInterval(SetupDebugMode(m2))

\* enableDebug
EnableDebugBody(m) ==
    LET m1 == [m EXCEPT !.isEnabled = TRUE]
        m2 == SetItem(m1, "devDebugEnabled", "true")
    IN  IF m2.thrown # "none" THEN m2
        ELSE Log(StartInterval(SetupDebugMode(m2)), "info", "system", "Debug Mode Enabled")

\* disableDebug without this._logs = []
DisableDebugKeepLogs(m) ==
    LET m1 == [m EXCEPT !.isEnabled = FALSE]
        m2 == SetItem(m1, "devDebugEnabled", "false")
    IN  IF m2.thrown # "none" THEN m2 ELSE StopInterval(TeardownDebugMode(m2))

\* disableDebug
DisableDebugBody(m) ==
    LET m1 == [m EXCEPT !.isEnabled = FALSE]
        m2 == SetItem(m1, "devDebugEnabled", "false")
    IN  IF m2.thrown # "none" THEN m2
        ELSE [StopInterval(TeardownDebugMode(m2)) EXCEPT !.logs = <<>>]

\* the callback of the cleanup interval
Prune(buf, t) == SelectSeq(buf, LAMBDA e : e.timestamp > t - Hour)

\* clearLogs
ClearLogsBody(m) == Log([m EXCEPT !.logs = <<>>], "info", "system", "Logs cleared")

\* the constructor, given what localStorage holds
Constructed(flag) ==
    LET m0 == [isEnabled |-> flag = "true", logs |-> <<>>, listeners |-> <<>>,
               originalFetch |-> "null", cleanupInterval |-> 0, fetch |-> "native",
               console |-> "native", errorHandlers |-> "null", setItemDepth |-> 0,
               cookieWrapped |-> FALSE, persisted |-> flag, wrapperMade |-> FALSE,
               now |-> 0, nextId |-> 1, isLoggingEnabled |-> FALSE,
               originalConsoleLog |-> "none", thrown |-> "none", appended |-> <<>>,
               delivered |-> <<>>, sunk |-> 0, written |-> 0, dispatched |-> 0,
               ret |-> "none", frames |-> 0]
    IN  IF m0.isEnabled THEN SetupDebugMode(m0) ELSE m0

\* ------------------------------------------------- the Settings panel
\* The panel is mounted once.  Its switch for debug capture follows the manager,
\* its switch for timestamp logging puts wrappers of its own on the console.

\* The effect on isLoggingEnabled, when it is true: it keeps the four console methods
\* as it finds them and puts its timestamp wrappers in their place.
LoggingEffect(m) == [m EXCEPT !.originalConsoleLog = m.console, !.console = "timestamp"]

\* The cleanup the effect returned: the four console methods are what it kept.
LoggingCleanup(m) == [m EXCEPT !.console = m.originalConsoleLog, !.originalConsoleLog = "none"]

\* setIsLoggingEnabled(!isLoggingEnabled): the cleanup of the effect in place, if
\* there is one, and then the effect, which begins with a write to localStorage.
ToggleLoggingBody(m) ==
    LET m1 == [m EXCEPT !.isLoggingEnabled = ~@]
        m2 == IF m1.originalConsoleLog # "none" THEN LoggingCleanup(m1) ELSE m1
        m3 == SetItem(m2, "devLoggingEnabled", IF m2.isLoggingEnabled THEN "true" ELSE "false")
    IN  IF m3.thrown # "none" \/ ~m3.isLoggingEnabled THEN m3 ELSE LoggingEffect(m3)

\* handleToggleDebug, with isDebugEnabled of the panel what the manager says, and
\* the effect on isDebugEnabled that follows.
HandleToggleDebugBody(m) ==
    LET m1 == IF m.isEnabled THEN DisableDebugBody(m) ELSE EnableDebugBody(m)
    IN  IF m1.thrown # "none" THEN m1
        ELSE SetItem(m1, "devDebugEnabled", IF m.isEnabled THEN "false" ELSE "true")

\* The timestamp wrapper of the panel called with "console message" and rest: it
\* calls the method it kept with its prefix before the arguments.  When that is the
\* wrapper of the manager, the prefix is the message and the arguments are the data.
TimestampWrapper(m, method, rest) ==
    IF m.originalConsoleLog = "wrapper"
    THEN LET m1 == LogData(m, ConsoleLevel(method), "system", "[timestamp] LOG:",
                           Arr(<<Str(15)>> \o rest))
         IN  IF m1.thrown # "none" THEN m1 ELSE [m1 EXCEPT !.sunk = @ + 1]
    ELSE [m EXCEPT !.sunk = @ + 1]

\* console[method]("console message", ...rest), whatever the method is at the time
ConsoleMethod(m, method, rest) ==
    IF m.console = "timestamp" THEN TimestampWrapper(m, method, rest)
    ELSE IF m.console = "wrapper" THEN ConsoleWrapper(m, method, rest)
    ELSE [m EXCEPT !.sunk = @ + 1]

\* ------------------------------------------------------------------ _fetch

\* What Math.random().toString(36).substring(7) may yield.
RequestIds == {"r1", "r2"}

\* The catch block of _fetch: logs the error and rethrows it, so the promise is
\* rejected with err, or with what the logging itself threw.
FetchCatch(m, err, rid) ==
    LET m1 == LogRid([m EXCEPT !.thrown = "none"], "error", "network", "API Error", rid)
    IN  [m1 EXCEPT !.thrown = "none",
                   !.ret = IF m1.thrown # "none" THEN m1.thrown ELSE err]

\* _fetch up to its await.  rids[d + 1] is the request id of this frame; d is how
\* many more frames fit on the stack.  this._originalFetch is read when the call is
\* made: null gives a TypeError, the native fetch dispatches the call, and a wrapper
\* runs _fetch again.
RECURSIVE FetchBody(_, _, _)
FetchBody(m, d, rids) ==
    LET rid == rids[d + 1]
        m1 == LogRid(m, "info", "network", "API Request", rid)
    IN  IF m1.thrown # "none" THEN FetchCatch(m1, m1.thrown, rid)
        ELSE IF m1.originalFetch = "null" THEN FetchCatch(m1, "TypeError", rid)
        ELSE IF m1.originalFetch = "native"
             THEN [m1 EXCEPT !.dispatched = @ + 1, !.ret = "await"]
        ELSE IF d = 0 THEN FetchCatch(m1, "RangeError", rid)
        ELSE LET inner == FetchBody(m1, d - 1, rids)
             IN  IF inner.ret = "await" THEN inner
                 ELSE FetchCatch(inner, inner.ret, rid)

\* _fetch after its await, when the native fetch has settled with outcome
FetchResume(m, outcome, rid) ==
    IF outcome = "response"
    THEN LET m1 == LogRid(m, "info", "network", "API Response", rid)
         IN  IF m1.thrown # "none" THEN FetchCatch(m1, m1.thrown, rid)
             ELSE [m1 EXCEPT !.ret = "response"]
    ELSE FetchCatch(m, "error", rid)

\* ------------------------------------------------- numbers of the engine
\* A JavaScript number is an IEEE 754 double.  A positive double is
\* [m |-> <<l1, l2, l3>>, e |-> e]: its 53-bit significand
\* M = l1 * 2^36 + l2 * 2^18 + l3, with 2^52 <= M < 2^53, in three limbs, and its
\* value M * 2^(e - 52).  FZero is 0.

\* 2^18, the base of the limbs
LimbBase == 262144

FZero == [m |-> <<0, 0, 0>>, e |-> 0]

\* 2^k for the small k used below
Pow2(k) == IF k = 6 THEN 64 ELSE IF k = 7 THEN 128 ELSE IF k = 11 THEN 2048 ELSE 4096

\* The double next above [m, e]: the significand plus one, renormalised
NextUp(m, e) ==
    LET l3 == m[3] + 1
        l2 == m[2] + l3 \div LimbBase
        l1 == m[1] + l2 \div LimbBase
    IN  IF l1 = LimbBase \div 2
        THEN [m |-> <<LimbBase \div 4, 0, 0>>, e |-> e + 1]
        ELSE [m |-> <<l1, l2 % LimbBase, l3 % LimbBase>>, e |-> e]

\* Round to nearest, ties to even: the exact value is (m + part / whole) * 2^(e - 52)
\* with 0 <= part < whole.
RoundNearestEven(m, e, part, whole) ==
    IF 2 * part > whole \/ (2 * part = whole /\ m[3] % 2 = 1)
    THEN NextUp(m, e)
    ELSE [m |-> m, e |-> e]

\* a / b scaled by a power of two so that 1 <= a / b < 2
RECURSIVE NormDiv(_, _, _)
NormDiv(a, b, e) ==
    IF a >= 2 * b THEN NormDiv(a, 2 * b, e + 1)
    ELSE IF a < b THEN NormDiv(2 * a, b, e - 1)
    ELSE <<a, b, e>>

\* a / b for integers a >= 0 and b > 0, as the engine evaluates it: long division,
\* a limb at a time
FDiv(a, b) ==
    IF a = 0 THEN FZero
    ELSE LET n == NormDiv(a, b, 0)
             x1 == n[1] * (LimbBase \div 4)
             x2 == (x1 % n[2]) * LimbBase
             x3 == (x2 % n[2]) * LimbBase
         IN  RoundNearestEven(<<x1 \div n[2], x2 \div n[2], x3 \div n[2]>>, n[3],
                              x3 % n[2], n[2])

\* x * 100 as the engine evaluates it: the product has 59 or 60 bits, of which the
\* low 6 or 7 are rounded away
FMul100(x) ==
    IF x = FZero THEN FZero
    ELSE LET p3 == x.m[3] * 100
             p2 == x.m[2] * 100 + p3 \div LimbBase
             p1 == x.m[1] * 100 + p2 \div LimbBase
             q2 == p2 % LimbBase
             q3 == p3 % LimbBase
             s == IF p1 >= Pow2(6) * (LimbBase \div 2) THEN 7 ELSE 6
         IN  RoundNearestEven(<<p1 \div Pow2(s),
                                (p1 % Pow2(s)) * Pow2(18 - s) + q2 \div Pow2(s),
                                (q2 % Pow2(s)) * Pow2(18 - s) + q3 \div Pow2(s)>>,
                              x.e + s, q3 % Pow2(s), Pow2(s))

\* (a / b) * 100
Percent(a, b) == FMul100(FDiv(a, b))

\* ------------------------------------------------------ the token usage store
\* The clock of the store counts hours.

\* const MAX_HISTORY_DAYS = 30
MAX_HISTORY_DAYS == 30
\* 24 * 60 * 60 * 1000 ms
Day == 24

Providers == {"OpenAI", "Anthropic"}
\* totalTokens of a tracked exchange
TokenCounts == {1, 2}
\* The limit Settings passes to setTokenLimit for a provider: the largest
\* maxTokenAllowed of the provider's models.
MaxTokenLimit(provider) == IF provider = "OpenAI" THEN 1 ELSE 4
TimeRanges == {"24h", "7d", "30d", "all"}

\* tokenUsageStore.get()
Store == [usageData |-> usageData, limits |-> limits]

EmptyStore == [usageData |-> <<>>, limits |-> <<>>]

\* No cookie of the name tokenUsageData.
NoCookie == [present |-> FALSE, form |-> "document", usageData |-> <<>>, limits |-> <<>>,
             expires |-> 0]

\* What Cookies.get can hand back: the document saveToStorage wrote; a text that is
\* no JSON (a document cut short, say), on which JSON.parse throws; or the JSON text
\* null, on which reading parsed.usageData throws.
Forms == {"document", "cut", "null"}

\* A start that takes what it can from a document cut short.
InitialStateLenient(c, t) ==
    IF c.present /\ t < c.expires
    THEN IF c.form = "document"
         THEN [usageData |-> c.usageData, limits |-> c.limits]
         ELSE [usageData |-> c.usageData, limits |-> <<>>]
    ELSE [usageData |-> <<>>, limits |-> <<>>]

\* initialState: the document of the cookie if the browser still has it, else the
\* empty state.  Nothing is filtered on the way in.  Both assignments come after
\* the two places that can throw, so the catch leaves the empty state untouched.
InitialState(c, t) ==
    IF c.present /\ t < c.expires /\ c.form = "document"
    THEN [usageData |-> c.usageData, limits |-> c.limits]
    ELSE EmptyStore

\* The most a browser stores in one cookie, in bytes.
CookieLimit == 4096

\* JSON.stringify of an event, as a value: the six keys of TokenUsageData, a model
\* name of five characters, counts of one digit and a timestamp in milliseconds.
\* No event serializes shorter.
EventJson(d) ==
    Obj(<<Field(8, Str(IF d.provider = "OpenAI" THEN 6 ELSE 9)), Field(5, Str(5)),
          Field(12, Num(1)), Field(16, Num(1)), Field(11, Num(1)), Field(9, Num(13))>>)

\* JSON.stringify(state), as a value
StateJson(state) ==
    LET names == SelectSeq(<<"OpenAI", "Anthropic">>, LAMBDA q : q \in DOMAIN state.limits)
    IN  Obj(<<Field(9, Arr([i \in 1..Len(state.usageData) |-> EventJson(state.usageData[i])])),
              Field(6, Obj([k \in 1..Len(names) |->
                              Field(IF names[k] = "OpenAI" THEN 6 ELSE 9, Num(1))]))>>)

\* saveToStorage(state): Cookies.set(COOKIE_KEY, JSON.stringify(state), {expires: 30})
\* on the cookie c.  The browser drops, without an error, the assignment of a cookie
\* that is larger than it stores, and keeps what it had.
SaveToStorage(c, state, t) ==
    IF SerializedSize(StateJson(state)) <= CookieLimit
    THEN [present |-> TRUE, form |-> "document", usageData |-> state.usageData, limits |-> state.limits,
          expires |-> t + MAX_HISTORY_DAYS * Day]
    ELSE c

\* A record that also drops the event that is exactly thirty days old.
AddTokenUsageStrict(state, data, t) ==
    [state EXCEPT !.usageData =
        SelectSeq(Append(state.usageData, data),
                  LAMBDA d : d.timestamp > t - MAX_HISTORY_DAYS * Day)]

\* addTokenUsage(data), the state it sets
AddTokenUsage(state, data, t) ==
    LET cutoffTime == t - MAX_HISTORY_DAYS * Day
    IN  [state EXCEPT !.usageData =
            SelectSeq(Append(state.usageData, data), LAMBDA d : d.timestamp >= cutoffTime)]

\* A setTokenLimit that adds the limit to the one the provider has.
SetTokenLimitAdding(state, provider, limit) ==
    [state EXCEPT !.limits =
        [q \in (DOMAIN state.limits) \cup {provider} |->
            IF q # provider THEN state.limits[q]
            ELSE IF q \in DOMAIN state.limits THEN state.limits[q] + limit ELSE limit]]

\* setTokenLimit(provider, limit), the state it sets
SetTokenLimit(state, provider, limit) ==
    [state EXCEPT !.limits =
        [q \in (DOMAIN state.limits) \cup {provider} |->
            IF q = provider THEN limit ELSE state.limits[q]]]

\* Every window reaches back one day: the switch of getUsageStats without its cases.
CutoffTimeDayOnly(timeRange, t) == t - Day

\* the switch on timeRange
CutoffTime(timeRange, t) ==
    IF timeRange = "24h" THEN t - Day
    ELSE IF timeRange = "7d" THEN t - 7 * Day
    ELSE IF timeRange = "30d" THEN t - 30 * Day
    ELSE 0

\* currentState.usageData.filter((d) => d.timestamp >= cutoffTime)
FilteredData(state, cutoffTime) ==
    SelectSeq(state.usageData, LAMBDA d : d.timestamp >= cutoffTime)

\* filteredData.reduce((sum, d) => sum + d.totalTokens, 0)
TotalTokens(filteredData) ==
    SumTo([i \in 1..Len(filteredData) |-> filteredData[i].totalTokens], Len(filteredData))

\* A breakdown that does not merge: one row for each event.
ProviderUsagePerEvent(filteredData) ==
    [i \in 1..Len(filteredData) |->
        [name |-> filteredData[i].provider, usage |-> filteredData[i].totalTokens]]

\* The reduce into providerUsage; Object.entries lists the keys in the order in which
\* they were first assigned.
RECURSIVE ProviderUsageFrom(_, _, _)
ProviderUsageFrom(filteredData, i, acc) ==
    IF i > Len(filteredData) THEN acc
    ELSE LET d == filteredData[i]
             at == {j \in 1..Len(acc) : acc[j].name = d.provider}
         IN  ProviderUsageFrom(filteredData, i + 1,
                IF at = {} THEN Append(acc, [name |-> d.provider, usage |-> 0 + d.totalTokens])
                ELSE [k \in 1..Len(acc) |->
                        IF k \in at THEN [acc[k] EXCEPT !.usage = @ + d.totalTokens]
                        ELSE acc[k]])

ProviderUsage(filteredData) == ProviderUsageFrom(filteredData, 1, <<>>)

\* The largest limit in place of the sum.
RECURSIVE TotalAvailableMax(_)
TotalAvailableMax(lim) ==
    IF DOMAIN lim = {} THEN 0
    ELSE LET q == CHOOSE x \in DOMAIN lim : TRUE
             others == TotalAvailableMax([x \in (DOMAIN lim) \ {q} |-> lim[x]])
         IN  IF lim[q] > others THEN lim[q] ELSE others

\* Object.values(currentState.limits).reduce((sum, limit) => sum + limit, 0)
RECURSIVE TotalAvailable(_)
TotalAvailable(lim) ==
    IF DOMAIN lim = {} THEN 0
    ELSE LET q == CHOOSE x \in DOMAIN lim : TRUE
         IN  lim[q] + TotalAvailable([x \in (DOMAIN lim) \ {q} |-> lim[x]])

\* The difference as it comes.
RemainingSigned(totalAvailable, totalTokens) == totalAvailable - totalTokens

\* Math.max(0, totalAvailable - totalTokens)
Remaining(totalAvailable, totalTokens) ==
    IF totalAvailable - totalTokens > 0 THEN totalAvailable - totalTokens ELSE 0

\* getUsageStats(timeRange), what it returns (chartData left out)
GetUsageStats(state, timeRange, t) ==
    LET filteredData == FilteredData(state, CutoffTime(timeRange, t))
        totalTokens == TotalTokens(filteredData)
        providerUsage == ProviderUsage(filteredData)
        totalAvailable == TotalAvailable(state.limits)
    IN  [total |-> totalAvailable,
         used |-> totalTokens,
         remaining |-> Remaining(totalAvailable, totalTokens),
         percentUsed |-> IF totalAvailable > 0 THEN Percent(totalTokens, totalAvailable)
                         ELSE FZero,
         providerBreakdown |->
            [i \in 1..Len(providerUsage) |->
                [name |-> providerUsage[i].name,
                 usage |-> providerUsage[i].usage,
                 percentage |-> IF totalTokens > 0
                                THEN Percent(providerUsage[i].usage, totalTokens)
                                ELSE FZero]]]

\* ------------------------------------------------------- the daily series
\* The clock counts hours from 0:00 local time on 5 January 2025, a Sunday.
\* A date is [month, day] of that year.
DaysBefore == <<0, 31, 59, 90, 120, 151, 181, 212, 243, 273, 304, 334>>
DaysIn == <<31, 28, 31, 30, 31, 30, 31, 31, 30, 31, 30, 31>>

\* new Date(d.timestamp), the local date
LocalDate(t) ==
    LET n == 5 + t \div Day
    IN  IF n <= 31 THEN [month |-> 1, day |-> n] ELSE [month |-> 2, day |-> n - 31]

\* The locales of the browser: en-US writes a date month/day/year, en-GB
\* day/month/year.
Locales == {"en-US", "en-GB"}

\* date.toLocaleDateString() in the browser's locale: the two numbers before the
\* year, in the order they are written
ToLocaleDateString(locale, date) ==
    IF locale = "en-US" THEN <<date.month, date.day>> ELSE <<date.day, date.month>>

\* The Invalid Date, and its time NaN: no month, and a number that is no day of
\* the year.
InvalidDate == [month |-> 0, day |-> 0]
NaN == -1

\* new Date(text) for a text of three numbers with slashes: the engine reads it as
\* month/day/year whatever locale wrote it, and gives an Invalid Date when that is
\* no date.
ParseDate(text) ==
    IF text[1] \in 1..12 /\ text[2] \in 1..DaysIn[text[1]]
    THEN [month |-> text[1], day |-> text[2]]
    ELSE InvalidDate

\* date.getTime(), in days of the year; NaN for an Invalid Date
GetTime(date) ==
    IF date = InvalidDate THEN NaN ELSE DaysBefore[date.month] + date.day

\* date.toLocaleDateString('en-US', { weekday: 'short' }); 1 January 2025 is a Wednesday
Weekday(date) ==
    IF date = InvalidDate THEN "Invalid Date"
    ELSE <<"Tue", "Wed", "Thu", "Fri", "Sat", "Sun", "Mon">>[(GetTime(date) % 7) + 1]

\* dailyUsage after the events up to the i-th: a Map keeps its keys in the order
\* of their first insertion
RECURSIVE DailyUsageFrom(_, _, _)
DailyUsageFrom(locale, filteredData, i) ==
    IF i = 0 THEN <<>>
    ELSE LET before == DailyUsageFrom(locale, filteredData, i - 1)
             d == filteredData[i]
             date == ToLocaleDateString(locale, LocalDate(d.timestamp))
         IN  IF \E k \in 1..Len(before) : before[k].date = date
             THEN [k \in 1..Len(before) |->
                      IF before[k].date = date
                      THEN [before[k] EXCEPT !.value = @ + d.totalTokens]
                      ELSE before[k]]
             ELSE Append(before, [date |-> date, value |-> d.totalTokens])

DailyUsage(locale, filteredData) == DailyUsageFrom(locale, filteredData, Len(filteredData))

\* (a, b) => new Date(a[0]).getTime() - new Date(b[0]).getTime() is negative.  A
\* difference with NaN is NaN, which is not negative.
ComesBefore(a, b) ==
    LET ta == GetTime(ParseDate(a.date))
        tb == GetTime(ParseDate(b.date))
    IN  IF ta = NaN \/ tb = NaN THEN FALSE ELSE ta < tb

\* entries.sort(compare): a stable sort; x is put before the first entry it comes
\* before
InsertSorted(sorted, x) ==
    IF \E k \in 1..Len(sorted) : ComesBefore(x, sorted[k])
    THEN LET k == CHOOSE j \in 1..Len(sorted) :
                      /\ ComesBefore(x, sorted[j])
                      /\ \A h \in 1..(j - 1) : ~ComesBefore(x, sorted[h])
         IN  SubSeq(sorted, 1, k - 1) \o <<x>> \o SubSeq(sorted, k, Len(sorted))
    ELSE Append(sorted, x)

RECURSIVE SortFrom(_, _)
SortFrom(entries, i) ==
    IF i = 0 THEN <<>> ELSE InsertSorted(SortFrom(entries, i - 1), entries[i])

SortedDays(entries) == SortFrom(entries, Len(entries))

\* chartData of getUsageStats(timeRange) in a browser of that locale
ChartData(locale, state, timeRange, t) ==
    LET filteredData == FilteredData(state, CutoffTime(timeRange, t))
        sortedDays == SortedDays(DailyUsage(locale, filteredData))
    IN  [labels |-> [k \in 1..Len(sortedDays) |-> Weekday(ParseDate(sortedDays[k].date))],
         values |-> [k \in 1..Len(sortedDays) |-> sortedDays[k].value]]

\* A query that keeps what it filtered: the store left with the events of the window.
StoreAfterStatsFiltered(state, timeRange, t) ==
    [state EXCEPT !.usageData = FilteredData(state, CutoffTime(timeRange, t))]

\* getUsageStats(timeRange), the store it leaves: it reads tokenUsageStore.get() and
\* never calls tokenUsageStore.set or saveToStorage.
StoreAfterStats(state, timeRange, t) == state

\* What ulast holds when the last operation returned nothing.
NoResult == [total |-> 0, used |-> 0, remaining |-> 0, percentUsed |-> FZero,
             providerBreakdown |-> <<>>]
NoData == [provider |-> "-", totalTokens |-> 0, timestamp |-> 0]
\* ulast after an operation that is neither a record nor a query
Quiet == [op |-> "-", timeRange |-> "-", result |-> NoResult, data |-> NoData, dropped |-> 0,
          limit |-> 0, replaced |-> 0]

\* The module has just been loaded and found no cookie.
UsageIdle ==
    /\ usageData = <<>>
    /\ limits = <<>>
    /\ cookie = NoCookie
    /\ clock = 0
    /\ ulast = Quiet

\* ---------------------------------------------------------------- actions

CanAppend == nextId <= MaxAppends

Rng(seq) == {seq[i] : i \in 1..Len(seq)}

\* DebugManager.getInstance() at module load, with the persisted flag as found
InitManager(flag) ==
    LET m == Constructed(flag)
    IN  /\ isEnabled = m.isEnabled
        /\ logs = m.logs
        /\ listeners = m.listeners
        /\ originalFetch = m.originalFetch
        /\ cleanupInterval = m.cleanupInterval
        /\ fetch = m.fetch
        /\ console = m.console
        /\ errorHandlers = m.errorHandlers
        /\ setItemDepth = m.setItemDepth
        /\ cookieWrapped = m.cookieWrapped
        /\ persisted = m.persisted
        /\ wrapperMade = m.wrapperMade
        /\ isLoggingEnabled = m.isLoggingEnabled
        /\ originalConsoleLog = m.originalConsoleLog
        /\ calls = <<>>
        /\ now = 0
        /\ nextId = 1
        /\ cycled = TRUE
        /\ run = <<>>
        /\ last = [op |-> "construct", thrown |-> "none", appended |-> <<>>,
                   delivered |-> <<>>, sunk |-> 0, written |-> 0, dispatched |-> 0,
                   enabledBefore |-> FALSE]

\* No call of truncateData on its own is under way.
TruncIdle == trunc = [input |-> Undefined, output |-> Undefined, done |-> FALSE]

Init ==
    /\ \E flag \in {"none", "true", "false"} : InitManager(flag)
    /\ TruncIdle
    /\ UsageIdle

EnableDebug ==
    /\ CanAppend
    /\ setItemDepth < MaxWraps
    /\ Commit(EnableDebugBody(Cur), "enableDebug")
    /\ cycled' = (cycled /\ ~isEnabled)
    /\ UNCHANGED <<calls, now>>

DisableDebug ==
    /\ Commit(DisableDebugBody(Cur), "disableDebug")
    /\ cycled' = (cycled /\ isEnabled)
    /\ UNCHANGED <<calls, now>>

\* debug(), info(), warn(), error(), logUserAction(), logStateChange()
PublicLevel(method) ==
    IF method \in {"logUserAction", "logStateChange"} THEN "info" ELSE method

PublicCategory(method) ==
    IF method = "logUserAction" THEN "user"
    ELSE IF method = "logStateChange" THEN "state" ELSE "system"

LogCall(method) ==
    /\ CanAppend
    /\ Commit(Log(Cur, PublicLevel(method), PublicCategory(method), "message"), method)
    /\ UNCHANGED <<calls, now, cycled>>

\* What a caller of Spec attaches: nothing that counts (the empty string), a short
\* string, an object that refers to itself.
CallData == {Str(0), Str(3), Circular}

\* info(message, data)
LogDataCall(data) ==
    /\ CanAppend
    /\ Commit(LogData(Cur, "info", "system", "message", data), "logData")
    /\ UNCHANGED <<calls, now, cycled>>

ClearLogs ==
    /\ CanAppend
    /\ Commit(ClearLogsBody(Cur), "clearLogs")
    /\ UNCHANGED <<calls, now, cycled>>

AddListener(l) ==
    /\ l \notin Rng(listeners)
    /\ Commit([Cur EXCEPT !.listeners = Append(@, l)], "addListener")
    /\ UNCHANGED <<calls, now, cycled>>

\* the function addListener returned
Unsubscribe(l) ==
    /\ l \in Rng(listeners)
    /\ Commit([Cur EXCEPT !.listeners = SelectSeq(@, LAMBDA x : x # l)], "unsubscribe")
    /\ UNCHANGED <<calls, now, cycled>>

\* a call of window.fetch while it is the wrapper, or of a wrapper some caller kept
FetchCall(rids) ==
    /\ CanAppend
    /\ wrapperMade
    /\ Len(calls) < MaxCalls
    /\ LET m == FetchBody(Cur, StackDepth, rids)
       IN  /\ Commit(m, "fetch")
           /\ calls' = Append(calls,
                  [rid |-> rids[StackDepth + 1],
                   via |-> IF fetch = "wrapper" THEN "window" ELSE "retained",
                   startedEnabled |-> isEnabled,
                   dispatched |-> m.dispatched,
                   underlying |-> "pending",
                   result |-> IF m.ret = "await" THEN "pending" ELSE m.ret])
    /\ UNCHANGED <<now, cycled>>

\* the native fetch of call i settles and _fetch runs on
FetchSettle(i, outcome) ==
    /\ calls[i].result = "pending"
    /\ LET m == FetchResume(Cur, outcome, calls[i].rid)
       IN  /\ Commit(m, "fetchSettle")
           /\ calls' = [calls EXCEPT ![i].underlying = outcome, ![i].result = m.ret]
    /\ UNCHANGED <<now, cycled>>

\* What follows the message in a console call: nothing, or an object that refers
\* to itself.
ConsoleRest == {<<>>, <<Circular>>}

\* a call of console.log/info/warn/error while it is the wrapper, or of a wrapper
\* some caller kept
ConsoleCall(method, rest) ==
    /\ CanAppend
    /\ wrapperMade
    /\ Commit(ConsoleWrapper(Cur, method, rest), "console")
    /\ UNCHANGED <<calls, now, cycled>>

\* an uncaught error or an unhandled rejection reaches the installed handler
ErrorEvent(kind) ==
    /\ CanAppend
    /\ errorHandlers = "handler"
    /\ Commit(ErrorHandler(Cur, kind), "errorEvent")
    /\ UNCHANGED <<calls, now, cycled>>

\* some code calls localStorage.setItem with a key of its own
StorageWrite ==
    /\ CanAppend
    /\ setItemDepth > 0
    /\ Commit(SetItem(Cur, "other", "v"), "setItem")
    /\ UNCHANGED <<calls, now, cycled>>

\* some code assigns document.cookie
CookieWrite ==
    /\ CanAppend
    /\ cookieWrapped
    /\ Commit(CookieSet(Cur), "cookie")
    /\ UNCHANGED <<calls, now, cycled>>

\* an interval started by enableDebug fires
TimerFire ==
    /\ cleanupInterval > 0
    /\ Commit([Cur EXCEPT !.logs = Prune(@, now)], "timer")
    /\ UNCHANGED <<calls, now, cycled>>

\* The page is loaded again: every global is the browser's own again, the module
\* runs from the top and the constructor reads the flag localStorage holds.  The
\* network calls in flight are gone with the page.
Restart ==
    /\ Commit([Constructed(persisted) EXCEPT !.nextId = nextId, !.now = now], "construct")
    /\ calls' = <<>>
    /\ cycled' = TRUE
    /\ UNCHANGED now

\* Spec: the lifecycle, the interceptors, the listeners and the network calls, at one
\* instant of the clock (time passes in BufSpec).
Next ==
    \/ EnableDebug
    \/ DisableDebug
    \/ \E method \in {"debug", "info", "warn", "error", "logUserAction", "logStateChange"} :
          LogCall(method)
    \/ \E data \in CallData : LogDataCall(data)
    \/ ClearLogs
    \/ \E l \in Listeners : AddListener(l)
    \/ \E l \in Listeners : Unsubscribe(l)
    \/ \E rids \in [1..(StackDepth + 1) -> RequestIds] : FetchCall(rids)
    \/ \E i \in 1..Len(calls), outcome \in {"response", "error"} : FetchSettle(i, outcome)
    \/ \E method \in {"log", "info", "warn", "error"}, rest \in ConsoleRest :
          ConsoleCall(method, rest)
    \/ \E kind \in {"error", "rejection"} : ErrorEvent(kind)
    \/ StorageWrite
    \/ CookieWrite
    \/ TimerFire
    \/ Restart

Spec == Init /\ [][Next]_vars

\* getLogs(): a copy of _logs
getLogs == logs

\* ----------------------------------------------------------------- BufSpec
\* The retention buffer at its real capacity.  The client fills it through
\* debug.info, and toggles capture (as handleToggleDebug does: enableDebug when
\* disabled, disableDebug when enabled), clears and lets time pass (with the cleanup
\* interval firing) while the buffer is nearly empty or nearly full.  No listener is
\* registered and no primitive is called.

CanFill == nextId <= MaxFill

AtEdge == Len(logs) <= EdgeWidth \/ Len(logs) >= maxLogs - EdgeWidth

BufLog ==
    /\ CanFill
    /\ Commit(Log(Cur, "info", "system", "message"), "info")
    /\ UNCHANGED <<calls, now, cycled>>

BufEnable ==
    /\ CanFill
    /\ AtEdge
    /\ ~isEnabled
    /\ setItemDepth < MaxWraps
    /\ Commit(EnableDebugBody(Cur), "enableDebug")
    /\ cycled' = (cycled /\ ~isEnabled)
    /\ UNCHANGED <<calls, now>>

BufDisable ==
    /\ AtEdge
    /\ isEnabled
    /\ DisableDebug

BufClear ==
    /\ CanFill
    /\ AtEdge
    /\ Commit(ClearLogsBody(Cur), "clearLogs")
    /\ UNCHANGED <<calls, now, cycled>>

BufTimer ==
    /\ AtEdge
    /\ TimerFire

BufTick ==
    /\ AtEdge
    /\ now < MaxClock
    /\ now' = now + 1
    /\ UNCHANGED <<isEnabled, logs, listeners, originalFetch, cleanupInterval, fetch,
                   console, errorHandlers, setItemDepth, cookieWrapped, persisted,
                   wrapperMade, calls, nextId, cycled, run, last, isLoggingEnabled,
                   originalConsoleLog, trunc, usageVars>>

BufNext ==
    \/ BufLog
    \/ BufEnable
    \/ BufDisable
    \/ BufClear
    \/ BufTimer
    \/ BufTick

BufSpec == Init /\ [][BufNext]_vars

\* ---------------------------------------------------------------- TruncSpec
\* truncateData on its own, under the budget _log gives it: one call on each of
\* the values below.

\* Strings around the budgets of the nested calls (51200 / 100, / 10, / 4, / 1), and
\* a number.
Leaves == {Str(0), Str(510), Str(5118), Str(5119), Str(12798), Str(60000), Num(3)}
\* How many items an array has, how many keys (of one character) an object.
Counts == {1, 5, 11}

Repeat(v, k) == [i \in 1..k |-> v]

RECURSIVE Values(_)
Values(d) ==
    IF d = 0 THEN Leaves
    ELSE LET inner == Values(d - 1)
         IN  inner \cup {Arr(Repeat(v, k)) : v \in inner, k \in Counts}
                   \cup {Obj(Repeat(Field(1, v), k)) : v \in inner, k \in Counts}

TruncInit ==
    /\ InitManager("none")
    /\ UsageIdle
    /\ trunc \in {[input |-> v, output |-> Undefined, done |-> FALSE] : v \in Values(MaxNest)}

TruncCall ==
    /\ ~trunc.done
    /\ trunc' = [trunc EXCEPT !.output = TruncateData(trunc.input, maxDataSize, 1),
                              !.done = TRUE]
    /\ UNCHANGED <<debugVars, usageVars>>

TruncNext == TruncCall

TruncSpec == TruncInit /\ [][TruncNext]_vars

\* ---------------------------------------------------------------- UsageSpec
\* The token usage store: exchanges are tracked, limits set, the panel queries, the
\* page is reloaded, and time passes from one of the instants below to a later one.

\* Hours at which something happens: the differences between them cover an age of a
\* day, of a week and of thirty days, each exactly and with one hour more.
Instants == {0, 1, 25, 169, 721}

UsageInit ==
    /\ InitManager("none")
    /\ TruncIdle
    /\ UsageIdle

\* trackTokenUsage(messages, model, provider): addTokenUsage of an event with the
\* timestamp Date.now(); tokens is what countMessageTokens counted
\* (the ledger is followed up to cap events; dropped remembers how many events
\* the call removed)
TrackUpTo(cap, provider, tokens) ==
    /\ LET data == [provider |-> provider, totalTokens |-> tokens, timestamp |-> clock]
           newState == AddTokenUsage(Store, data, clock)
       IN  /\ Len(newState.usageData) <= cap
           /\ usageData' = newState.usageData
           /\ limits' = newState.limits
           /\ cookie' = SaveToStorage(cookie, newState, clock)
           /\ ulast' = [op |-> "record", timeRange |-> "-", result |-> NoResult,
                        data |-> data,
                        dropped |-> Len(usageData) + 1 - Len(newState.usageData),
                        limit |-> 0, replaced |-> 0]
    /\ UNCHANGED <<debugVars, trunc, clock>>

TrackTokenUsage(provider, tokens) == TrackUpTo(MaxEvents, provider, tokens)

\* setTokenLimit(providerName, maxTokenLimit), as Settings calls it when a provider
\* is enabled
SetLimit(provider) ==
    /\ LET newState == SetTokenLimit(Store, provider, MaxTokenLimit(provider))
       IN  /\ usageData' = newState.usageData
           /\ limits' = newState.limits
           /\ cookie' = SaveToStorage(cookie, newState, clock)
           /\ ulast' = Quiet
    /\ UNCHANGED <<debugVars, trunc, clock>>

\* getUsageStats(timeRange)
Query(timeRange) ==
    /\ LET after == StoreAfterStats(Store, timeRange, clock)
       IN  /\ usageData' = after.usageData
           /\ limits' = after.limits
    /\ ulast' = [op |-> "query", timeRange |-> timeRange,
                 result |-> GetUsageStats(Store, timeRange, clock), data |-> NoData,
                 dropped |-> 0, limit |-> 0, replaced |-> 0]
    /\ UNCHANGED <<debugVars, trunc, cookie, clock>>

\* time passes
Advance(t) ==
    /\ t > clock
    /\ clock' = t
    /\ ulast' = Quiet
    /\ UNCHANGED <<debugVars, trunc, usageData, limits, cookie>>

\* The page is loaded again: the module runs from the top.  The browser has dropped
\* the cookie if its thirty days are over.
Reload ==
    /\ LET loaded == InitialState(cookie, clock)
       IN  /\ usageData' = loaded.usageData
           /\ limits' = loaded.limits
    /\ cookie' = IF cookie.present /\ clock < cookie.expires THEN cookie ELSE NoCookie
    /\ ulast' = Quiet
    /\ UNCHANGED <<debugVars, trunc, clock>>

UsageNext ==
    \/ \E provider \in Providers, tokens \in TokenCounts : TrackTokenUsage(provider, tokens)
    \/ \E provider \in Providers : SetLimit(provider)
    \/ \E timeRange \in TimeRanges : Query(timeRange)
    \/ \E t \in Instants : Advance(t)
    \/ Reload

UsageSpec == UsageInit /\ [][UsageNext]_vars

\* -------------------------------------------------------------- PersistSpec
\* The usage store over one busy month: exchanges of one kind are tracked one after
\* the other at one instant, limits are set and the page is reloaded.

PersistTrack == TrackUpTo(MaxLedger, "OpenAI", 1)

\* The cookie the browser holds is no longer the text that was written.
Damage(form) ==
    /\ cookie.present
    /\ cookie.form = "document"
    /\ form # "document"
    /\ cookie' = [cookie EXCEPT !.form = form]
    /\ ulast' = Quiet
    /\ UNCHANGED <<debugVars, trunc, usageData, limits, clock>>

\* The limits a caller of setTokenLimit other than Settings passes.
Limits == {2, 8}

\* setTokenLimit(provider, limit) with a limit of the caller's choice; ulast
\* remembers the provider, the limit and the limit the provider had (0 for none)
SetLimitTo(provider, limit) ==
    /\ LET newState == SetTokenLimit(Store, provider, limit)
       IN  /\ usageData' = newState.usageData
           /\ limits' = newState.limits
           /\ cookie' = SaveToStorage(cookie, newState, clock)
    /\ ulast' = [Quiet EXCEPT !.op = "setLimit",
                              !.data = [NoData EXCEPT !.provider = provider],
                              !.limit = limit,
                              !.replaced = IF provider \in DOMAIN limits
                                           THEN limits[provider] ELSE 0]
    /\ UNCHANGED <<debugVars, trunc, clock>>

PersistNext ==
    \/ PersistTrack
    \/ \E provider \in Providers : SetLimit(provider)
    \/ \E provider \in Providers, limit \in Limits : SetLimitTo(provider, limit)
    \/ Reload
    \/ \E form \in Forms : Damage(form)

PersistSpec == UsageInit /\ [][PersistNext]_vars

\* ---------------------------------------------------------------- ChartSpec
\* Exchanges are tracked over a month and the daily series is asked for, in a
\* browser of one locale or the other.

\* getUsageStats(timeRange).chartData
Chart(locale, timeRange) ==
    /\ ulast' = [op |-> "chart", timeRange |-> timeRange,
                 result |-> GetUsageStats(Store, timeRange, clock), data |-> NoData,
                 dropped |-> 0, limit |-> 0, replaced |-> 0, locale |-> locale,
                 chartData |-> ChartData(locale, Store, timeRange, clock)]
    /\ UNCHANGED <<debugVars, trunc, usageData, limits, cookie, clock>>

ChartNext ==
    \/ \E provider \in Providers, tokens \in TokenCounts : TrackTokenUsage(provider, tokens)
    \/ \E t \in Instants : Advance(t)
    \/ \E locale \in Locales, timeRange \in TimeRanges : Chart(locale, timeRange)

ChartSpec == UsageInit /\ [][ChartNext]_vars

\* ---------------------------------------------------------------- WriteSpec
\* The lifecycle and the storage writes over several cycles, with no listener
\* registered.

\* The ids the entries of WriteSpec go up to.
MaxIds == 6

WriteEnable ==
    /\ nextId <= MaxIds
    /\ setItemDepth < MaxWraps
    /\ Commit(EnableDebugBody(Cur), "enableDebug")
    /\ cycled' = (cycled /\ ~isEnabled)
    /\ UNCHANGED <<calls, now>>

\* some code calls localStorage.setItem with a key of its own, wrapped or not
WriteStorage ==
    /\ nextId <= MaxIds
    /\ Commit(SetItem(Cur, "other", "v"), "setItem")
    /\ UNCHANGED <<calls, now, cycled>>

\* some code assigns document.cookie, wrapped or not
WriteCookie ==
    /\ nextId <= MaxIds
    /\ Commit(CookieSet(Cur), "cookie")
    /\ UNCHANGED <<calls, now, cycled>>

WriteNext ==
    \/ WriteEnable
    \/ DisableDebug
    \/ WriteStorage
    \/ WriteCookie

WriteSpec == Init /\ [][WriteNext]_vars

\* -------------------------------------------------------------- ConsoleSpec
\* The two switches of the Settings panel, debug capture and timestamp logging,
\* thrown in any order, and calls of the console in between.

ToggleLogging ==
    /\ nextId <= MaxIds
    /\ Commit(ToggleLoggingBody(Cur), "toggleLogging")
    /\ UNCHANGED <<calls, now, cycled>>

HandleToggleDebug ==
    /\ nextId <= MaxIds
    /\ Commit(HandleToggleDebugBody(Cur), "toggleDebug")
    /\ UNCHANGED <<calls, now, cycled>>

ConsoleSay(method, rest) ==
    /\ nextId <= MaxIds
    /\ Commit(ConsoleMethod(Cur, method, rest), "console")
    /\ UNCHANGED <<calls, now, cycled>>

ConsoleNext ==
    \/ ToggleLogging
    \/ HandleToggleDebug
    \/ \E method \in {"log", "error"}, rest \in ConsoleRest : ConsoleSay(method, rest)

\* The page is loaded with debug capture off.
ConsoleInit ==
    /\ \E flag \in {"none", "false"} : InitManager(flag)
    /\ TruncIdle
    /\ UsageIdle

ConsoleSpec == ConsoleInit /\ [][ConsoleNext]_vars

\* --------------------------------------------------------------- ListenSpec
\* The listeners at work: callbacks that throw, that unsubscribe from inside a
\* notification and that log are registered and removed while entries are logged.

\* How many callbacks are registered at a time.
MaxListeners == 3

Subscribe(l) ==
    /\ Len(listeners) < MaxListeners
    /\ AddListener(l)

ListenNext ==
    \/ \E l \in Callbacks \cup Listeners : Subscribe(l)
    \/ \E l \in Callbacks \cup Listeners : Unsubscribe(l)
    \/ LogCall("info")
    \/ ClearLogs
    \/ EnableDebug
    \/ DisableDebug

ListenSpec == Init /\ [][ListenNext]_vars

\* ------------------------------------------------------------------ claims

\* The last n elements of seq.
LastN(seq, n) == SubSeq(seq, Len(seq) - n + 1, Len(seq))

Min(a, b) == IF a < b THEN a ELSE b

\* C1: whatever the client does (enable, disable, log calls, clearLogs, interval
\* prunes, with the buffer filled past its capacity), the retention buffer never
\* holds more than maxLogs entries.
C1_BufferBounded == Len(logs) <= maxLogs

\* C1 witness: the buffer is full and more entries than it can hold were appended
\* since it was last emptied, so an append has evicted.
C1_Witness == Len(logs) = maxLogs /\ Len(run) > maxLogs

\* C2: after n appends since the buffer was last emptied or pruned, getLogs is
\* exactly the last min(n, maxLogs) appended entries, newest first: the newest is at
\* index 1 and the entries dropped for capacity are the oldest.
C2_NewestFirst ==
    Ids(getLogs) = Reverse(LastN(run, Min(Len(run), maxLogs)))

\* C2 witness: capture is enabled, more than maxLogs entries were appended in a row
\* and the head of the buffer is the newest of them.
C2_Witness ==
    /\ isEnabled
    /\ Len(run) > maxLogs
    /\ logs[1].id = run[Len(run)]
    /\ logs[maxLogs].id = run[Len(run) - maxLogs + 1]

\* How many debug wrappers a call of window.fetch passes before the native fetch.
FetchWrapDepth ==
    IF fetch = "native" THEN 0 ELSE IF originalFetch = "wrapper" THEN 2 ELSE 1

\* C3: after enable/disable calls that strictly alternate, no intercepted primitive
\* (fetch, console, the error handlers, localStorage.setItem, the cookie setter) is
\* wrapped more than once.
C3_WrappedAtMostOnce ==
    (cycled /\ last.thrown = "none") => (FetchWrapDepth <= 1 /\ setItemDepth <= 1)

\* Every primitive is the implementation that was in place before enableDebug.
AllOriginal ==
    /\ fetch = "native"
    /\ console = "native"
    /\ errorHandlers = "null"
    /\ setItemDepth = 0
    /\ ~cookieWrapped

\* C4: when disableDebug returns, every primitive that enableDebug wrapped is the
\* original implementation again, with no wrapper left installed.
C4_TeardownRestoresAll ==
    (cycled /\ last.op = "disableDebug" /\ last.thrown = "none") => AllOriginal

\* C5: while the lifecycle state is Disabled no operation (a network call in flight
\* settling, a call through a retained or left-behind wrapper, the interval firing)
\* appends an entry or notifies a listener.
C5_NoStragglerAppends ==
    ~isEnabled => (last.appended = <<>> /\ last.delivered = <<>>)

\* C5 witness: capture is disabled and the last operation was the completion of a
\* network call that was started through the wrapper while capture was enabled, with
\* a listener registered.
C5_Witness ==
    /\ ~isEnabled
    /\ last.op = "fetchSettle"
    /\ listeners # <<>>
    /\ \E i \in 1..Len(calls) : calls[i].startedEnabled /\ calls[i].result = "response"

\* C6: in every state where the lifecycle is Disabled the buffer is empty; in
\* particular getLogs is empty right after disableDebug returns.
C6_DisabledBufferEmpty == ~isEnabled => getLogs = <<>>

\* C6 witness: disableDebug has just returned, and entries had been appended before.
C6_Witness == last.op = "disableDebug" /\ nextId > 1 /\ getLogs = <<>>

\* C7: after disableDebug returns no interval started by an earlier enableDebug is
\* still active.
C7_TimerStopped ==
    (cycled /\ last.op = "disableDebug" /\ last.thrown = "none") => cleanupInterval = 0

\* C8: every call made through the fetch wrapper dispatches the underlying call
\* exactly once, and once it has ended the caller has received exactly the response
\* the underlying call returned or exactly the error it threw.
C8_FetchObservational ==
    \A i \in 1..Len(calls) :
        /\ calls[i].dispatched = 1
        /\ calls[i].result # "pending" => calls[i].result = calls[i].underlying

\* C9: when a listener throws while it is notified of an entry, every registered
\* listener is still notified of that entry, the entry is in the buffer and the
\* buffer is within its capacity.
C9_ListenersIsolated ==
    \A k \in 1..Len(last.delivered) :
        Throws(last.delivered[k][1]) =>
            /\ \A l \in Rng(listeners) : <<l, last.delivered[k][2]>> \in Rng(last.delivered)
            /\ last.delivered[k][2] \in Rng(Ids(logs))
            /\ Len(logs) <= maxLogs

\* How often listener l was called with the entry of identity id in the last operation.
Deliveries(l, id) ==
    Cardinality({k \in 1..Len(last.delivered) : last.delivered[k] = <<l, id>>})

\* C10: an operation that appends an entry calls every registered listener exactly
\* once with that entry before it returns, and calls no listener with anything that
\* was not appended.
C10_EveryListenerOnce ==
    /\ \A k \in 1..Len(last.appended) :
          \A l \in Rng(listeners) : Deliveries(l, last.appended[k].id) = 1
    /\ \A k \in 1..Len(last.delivered) :
          last.delivered[k][2] \in Rng(Ids(last.appended))

\* C11: whatever value truncateData is given, what it returns serializes to at most
\* the byte budget it was given.
C11_TruncatedWithinBudget ==
    trunc.done => SerializedSize(trunc.output) <= maxDataSize

\* C12: a log call made while capture is on never raises because of the data
\* attached to it, circular data included, and records one entry.
C12_TruncationNeverFails ==
    (last.op = "logData" /\ isEnabled) =>
        /\ last.thrown # "TypeError"
        /\ Len(last.appended) = 1

\* C13: a prune removes exactly the entries older than the cutoff (one hour before
\* the prune); the entries at or after the cutoff stay, unchanged and in order.
C13_PruneExact ==
    [][last'.op = "timer" =>
          logs' = SelectSeq(logs, LAMBDA e : e.timestamp >= now - Hour)]_vars

\* --------------------------------------------------- the token usage store

\* what query('all') returns for the store st at the instant t: used, and the usage
\* of provider p (0 if it has no row)
UsedAll(st, t) == GetUsageStats(st, "all", t).used

ProviderUsedAll(st, t, p) ==
    LET rows == GetUsageStats(st, "all", t).providerBreakdown
    IN  SumTo([k \in 1..Len(rows) |-> IF rows[k].name = p THEN rows[k].usage ELSE 0],
              Len(rows))

\* C14: a record followed at once by query('all') shows the new event exactly once:
\* used is larger by the event's totalTokens than before the record, and so is the
\* usage of the event's provider.
C14_RecordReflectedOnce ==
    [][ulast'.op = "record" =>
          LET before == [usageData |-> usageData, limits |-> limits]
              after == [usageData |-> usageData', limits |-> limits']
              data == ulast'.data
          IN  /\ UsedAll(after, clock') = UsedAll(before, clock) + data.totalTokens
              /\ ProviderUsedAll(after, clock', data.provider) =
                    ProviderUsedAll(before, clock, data.provider) + data.totalTokens]_vars

C16_LedgerWithinHorizon ==
    \A i \in 1..Len(usageData) :
        usageData[i].timestamp >= clock - MAX_HISTORY_DAYS * Day

\* the age in hours of the event at index i of the ledger
Age(i) == clock - usageData[i].timestamp

\* whether an event of that age belongs to the window
InWindow(age, timeRange) ==
    \/ timeRange = "all"
    \/ timeRange = "24h" /\ age <= 24
    \/ timeRange = "7d" /\ age <= 168
    \/ timeRange = "30d" /\ age <= 720

\* the sum of totalTokens over the events of the ledger that satisfy Keep
TokensWhere(Keep(_)) ==
    SumTo([i \in 1..Len(usageData) |-> IF Keep(i) THEN usageData[i].totalTokens ELSE 0],
          Len(usageData))

\* C17: used is the sum of totalTokens over the events within the window queried; an
\* event 25 hours old counts for '7d' and 'all' and not for '24h'.
C17_UsedIsWindowSum ==
    ulast.op = "query" =>
        /\ ulast.result.used = TokensWhere(LAMBDA i : InWindow(Age(i), ulast.timeRange))
        /\ (ulast.timeRange = "24h" /\ \A i \in 1..Len(usageData) : Age(i) = 25) =>
              ulast.result.used = 0
        /\ (ulast.timeRange \in {"7d", "all"} /\ \A i \in 1..Len(usageData) : Age(i) = 25) =>
              ulast.result.used = TokensWhere(LAMBDA i : TRUE)

\* query('24h') has left out an event 25 hours old and counted a younger one
C17_Witness ==
    /\ ulast.op = "query"
    /\ ulast.timeRange = "24h"
    /\ \E i, j \in 1..Len(usageData) :
          /\ Age(i) = 25
          /\ Age(j) = 24
          /\ ulast.result.used = usageData[j].totalTokens

\* the sum of the limits configured
SumOfLimits ==
    LET ps == [k \in 1..2 |-> IF k = 1 THEN "OpenAI" ELSE "Anthropic"]
    IN  SumTo([k \in 1..2 |-> IF ps[k] \in DOMAIN limits THEN limits[ps[k]] ELSE 0], 2)

\* C18: total is the sum of the limits configured, whatever the window and whatever
\* the events.
C18_TotalIsSumOfLimits ==
    ulast.op = "query" =>
        /\ ulast.result.total = SumOfLimits
        /\ \A w \in TimeRanges : GetUsageStats(Store, w, clock).total = ulast.result.total
        /\ GetUsageStats([Store EXCEPT !.usageData = <<>>], ulast.timeRange, clock).total
              = ulast.result.total

\* a query has returned with two limits configured and events in the ledger
C18_Witness ==
    /\ ulast.op = "query"
    /\ DOMAIN limits = Providers
    /\ usageData # <<>>
    /\ \A p \in Providers : ulast.result.total > limits[p]

\* C19: remaining is total - used where that is positive and 0 otherwise; with no
\* events and no limits the query returns zeros and an empty breakdown.
C19_RemainingClamped ==
    ulast.op = "query" =>
        /\ ulast.result.remaining >= 0
        /\ ulast.result.total - ulast.result.used >= 0 =>
              ulast.result.remaining = ulast.result.total - ulast.result.used
        /\ ulast.result.total - ulast.result.used < 0 => ulast.result.remaining = 0
        /\ (usageData = <<>> /\ DOMAIN limits = {}) =>
              /\ ulast.result.total = 0
              /\ ulast.result.used = 0
              /\ ulast.result.remaining = 0
              /\ ulast.result.percentUsed = FZero
              /\ ulast.result.providerBreakdown = <<>>

\* a query has returned with more used than the limits allow
C19_Witness ==
    /\ ulast.op = "query"
    /\ ulast.result.total > 0
    /\ ulast.result.used > ulast.result.total
    /\ ulast.result.remaining = 0

\* A double x < 2^10 in fixed point, x * 2^72, as five limbs, least significant first:
\* the significand moved up by x.e + 20 bits.
Fixed(x) ==
    LET w == (x.e + 20) \div 18
        b == (x.e + 20) % 18
        up == IF b < 6 THEN (IF b = 0 THEN 1 ELSE IF b = 1 THEN 2 ELSE IF b = 2 THEN 4
                             ELSE IF b = 3 THEN 8 ELSE IF b = 4 THEN 16 ELSE 32)
              ELSE IF b < 12 THEN (IF b = 6 THEN 64 ELSE IF b = 7 THEN 128
                                   ELSE IF b = 8 THEN 256 ELSE IF b = 9 THEN 512
                                   ELSE IF b = 10 THEN 1024 ELSE 2048)
              ELSE (IF b = 12 THEN 4096 ELSE IF b = 13 THEN 8192 ELSE IF b = 14 THEN 16384
                    ELSE IF b = 15 THEN 32768 ELSE IF b = 16 THEN 65536 ELSE 131072)
        src(k) == IF k \in 0..2 THEN x.m[3 - k] ELSE 0
    IN  [k \in 1..5 |->
            (src(k - 1 - w) % (LimbBase \div up)) * up + src(k - 2 - w) \div (LimbBase \div up)]

\* The exact sum of the percentages of the rows, in fixed point, the carries worked in.
RECURSIVE ShareSumFrom(_, _, _)
ShareSumFrom(rows, k, carry) ==
    IF k > 5 THEN <<>>
    ELSE LET d == carry + SumTo([r \in 1..Len(rows) |-> Fixed(rows[r].percentage)[k]],
                                Len(rows))
         IN  <<d % LimbBase>> \o ShareSumFrom(rows, k + 1, d \div LimbBase)

ShareSum(rows) == ShareSumFrom(rows, 1, 0)

\* 100 in fixed point: the limbs below limb 5 are the 72 fraction bits
IsHundred(f) == f = <<0, 0, 0, 0, 100>>

\* within 2^-36 of 100
NearHundred(f) ==
    \/ f[5] = 100 /\ f[4] = 0 /\ f[3] = 0
    \/ f[5] = 99 /\ f[4] = LimbBase - 1 /\ f[3] = LimbBase - 1

\* The breakdown has one row for each provider with an event in the window and no
\* other row, each row carries the sum of that provider's events in the window, and
\* the usages of the rows add up to used.
BreakdownRows ==
    LET rows == ulast.result.providerBreakdown
    IN  /\ \A p \in Providers :
              Cardinality({k \in 1..Len(rows) : rows[k].name = p}) =
                  IF \E i \in 1..Len(usageData) :
                        usageData[i].provider = p /\ InWindow(Age(i), ulast.timeRange)
                  THEN 1 ELSE 0
        /\ \A k \in 1..Len(rows) :
              /\ rows[k].name \in Providers
              /\ rows[k].usage =
                    TokensWhere(LAMBDA i : /\ usageData[i].provider = rows[k].name
                                           /\ InWindow(Age(i), ulast.timeRange))
        /\ SumTo([k \in 1..Len(rows) |-> rows[k].usage], Len(rows)) = ulast.result.used

\* The same ledger with every event counting zero tokens, queried with the window of
\* the last query: used is 0 and every row has the percentage 0.
ZeroShares ==
    LET st == [Store EXCEPT !.usageData =
                  [i \in 1..Len(usageData) |-> [usageData[i] EXCEPT !.totalTokens = 0]]]
        r == GetUsageStats(st, ulast.timeRange, clock)
    IN  /\ r.used = 0
        /\ \A k \in 1..Len(r.providerBreakdown) : r.providerBreakdown[k].percentage = FZero

\* C20: the breakdown has exactly the rows of the providers in the window with their
\* sums, and the percentages are 0 when used is 0 and add up to 100 otherwise.
C20_BreakdownExact ==
    ulast.op = "query" =>
        /\ BreakdownRows
        /\ ZeroShares
        /\ LET rows == ulast.result.providerBreakdown
           IN  IF ulast.result.used = 0
               THEN \A k \in 1..Len(rows) : rows[k].percentage = FZero
               ELSE IsHundred(ShareSum(rows))

\* C20 as the code has it: each percentage is (usage / used) * 100 in the arithmetic
\* of doubles, and their sum is within 2^-36 of 100.
C20_BreakdownRounded ==
    ulast.op = "query" =>
        /\ BreakdownRows
        /\ ZeroShares
        /\ LET rows == ulast.result.providerBreakdown
           IN  IF ulast.result.used = 0
               THEN \A k \in 1..Len(rows) : rows[k].percentage = FZero
               ELSE /\ \A k \in 1..Len(rows) :
                          rows[k].percentage = Percent(rows[k].usage, ulast.result.used)
                    /\ NearHundred(ShareSum(rows))

\* a query has returned two rows whose percentages do not add up to 100
C20_Witness ==
    /\ ulast.op = "query"
    /\ Len(ulast.result.providerBreakdown) = 2
    /\ ~IsHundred(ShareSum(ulast.result.providerBreakdown))

\* ------------------------------------------------- lifecycle and interceptors

\* The four interceptors are in place: fetch, the console methods, the error
\* handlers and the monitors of localStorage.setItem and of the cookie setter.
AllInstalled ==
    /\ fetch = "wrapper"
    /\ console = "wrapper"
    /\ errorHandlers = "handler"
    /\ setItemDepth >= 1
    /\ cookieWrapped

\* C21: at startup capture is Enabled, with the interceptors installed, exactly if
\* the persisted flag is "true" (Disabled when nothing is persisted), and after
\* every enableDebug and disableDebug the persisted flag says what the state is.
C21_FlagMatchesState ==
    /\ last.op = "construct" =>
          /\ isEnabled <=> persisted = "true"
          /\ isEnabled <=> AllInstalled
          /\ ~isEnabled => AllOriginal
    /\ last.op \in {"enableDebug", "disableDebug"} =>
          persisted = IF isEnabled THEN "true" ELSE "false"

\* C22: after each record and each setLimit the persisted document is the state in
\* memory, so that a reload right after it would load the same events and limits.
C22_PersistedOnEveryMutation ==
    [][(PersistTrack \/ \E provider \in Providers : SetLimit(provider)) =>
          /\ cookie'.present
          /\ cookie'.usageData = usageData'
          /\ cookie'.limits = limits'
          /\ InitialState(cookie', clock') = [usageData |-> usageData', limits |-> limits']]_vars


\* C23: a start that cannot read the persisted document (JSON.parse throws on it,
\* or it holds no object) goes on with the empty ledger and no limits: nothing of
\* the unreadable document is loaded, and the cookie is left as it was.
C23_UnreadableStartsEmpty ==
    [][(Reload /\ cookie.present /\ cookie.form # "document") =>
          /\ usageData' = <<>>
          /\ limits' = <<>>
          /\ cookie' = cookie]_vars

\* an unreadable document with events in it, and the store empty after the start
C23_Witness ==
    /\ cookie.present
    /\ cookie.form # "document"
    /\ cookie.usageData # <<>>
    /\ usageData = <<>>
    /\ limits = <<>>

\* Every event of ledger a is in ledger b, at the same place.
Keeps(a, b) ==
    /\ Len(a) <= Len(b)
    /\ \A i \in 1..Len(a) : b[i] = a[i]

\* Every limit of a is a limit of b.
KeepsLimits(a, b) == \A q \in DOMAIN a : q \in DOMAIN b /\ b[q] = a[q]

\* C24: trackTokenUsage and setTokenLimit run to their end one after the other, in
\* whatever order they were called; each of them keeps every event (all of them
\* within the thirty days here) and every limit the calls before it left, adds its
\* own, and leaves all of that in the persisted document too.
C24_NoLostUpdate ==
    [][(PersistTrack \/ \E provider \in Providers : SetLimit(provider)) =>
          /\ Keeps(usageData, usageData')
          /\ KeepsLimits(limits, limits')
          /\ PersistTrack => /\ Len(usageData') = Len(usageData) + 1
                             /\ usageData'[Len(usageData')] = ulast'.data
          /\ \A provider \in Providers :
                SetLimit(provider) => /\ provider \in DOMAIN limits'
                                      /\ limits'[provider] = MaxTokenLimit(provider)
          /\ cookie'.present
          /\ cookie'.form = "document"
          /\ Keeps(usageData', cookie'.usageData)
          /\ KeepsLimits(limits', cookie'.limits)]_vars

\* the events of a ledger that are at most thirty days old at the instant t, in
\* the order of the ledger
Recent(ledger, t) == SelectSeq(ledger, LAMBDA d : t - d.timestamp <= 30 * 24)

\* C25: a record leaves the events that were there followed by the new one, less
\* those older than thirty days, in their order; right after it no event of the
\* ledger is older than thirty days and query('all') counts exactly these events.
C25_RecordAppendsAndPrunes ==
    [][ulast'.op = "record" =>
          LET after == [usageData |-> usageData', limits |-> limits']
          IN  /\ usageData' = Recent(Append(usageData, ulast'.data), clock')
              /\ usageData'[Len(usageData')] = ulast'.data
              /\ \A i \in 1..Len(usageData') :
                    clock' - usageData'[i].timestamp <= 30 * 24
              /\ UsedAll(after, clock') =
                    SumTo([i \in 1..Len(usageData') |-> usageData'[i].totalTokens],
                          Len(usageData'))]_vars

\* a record that removed an event of more than thirty days and kept one of exactly
\* thirty days
C25_Witness ==
    /\ ulast.op = "record"
    /\ ulast.dropped = 1
    /\ Len(usageData) = 2
    /\ clock - usageData[1].timestamp = 30 * 24

\* C26: whenever the manager is Enabled, whether enableDebug or the constructor made
\* it so, an interval that prunes by age is running (without one no entry is ever
\* removed for its age).
C26_TimerWhileEnabled == isEnabled => cleanupInterval > 0

\* C27: after any sequence of enableDebug and disableDebug, enableDebug while Enabled
\* included, the installed fetch wrapper hands the call to the native fetch and the
\* setItem wrapper to the native setItem, never to another debug wrapper; a call of
\* window.fetch reaches the network once and does not end in a stack overflow.
C27_WrappersDelegateToOriginal ==
    /\ fetch = "wrapper" => originalFetch = "native"
    /\ setItemDepth <= 1
    /\ \A i \in 1..Len(calls) :
          calls[i].via = "window" => /\ calls[i].dispatched = 1
                                     /\ calls[i].result # "RangeError"

\* C28: when enableDebug, called in the Disabled state, has returned, the entry at
\* the head of the buffer is the info/system entry "Debug Mode Enabled", every
\* registered listener has been called with it, and fetch, the console, the error
\* handlers and the storage writes are intercepted.
C28_EnableEmitsEntry ==
    (last.op = "enableDebug" /\ ~last.enabledBefore /\ last.thrown = "none") =>
        /\ isEnabled
        /\ Len(logs) >= 1
        /\ logs[1].level = "info"
        /\ logs[1].category = "system"
        /\ logs[1].message = "Debug Mode Enabled"
        /\ \A i \in 1..Len(listeners) :
              \E k \in 1..Len(last.delivered) :
                  last.delivered[k] = <<listeners[i], logs[1].id>>
        /\ AllInstalled

\* enableDebug has returned from the Disabled state with a listener registered
C28_Witness ==
    /\ last.op = "enableDebug"
    /\ last.thrown = "none"
    /\ ~last.enabledBefore
    /\ listeners # <<>>
    /\ last.delivered # <<>>
    /\ logs[1].message = "Debug Mode Enabled"

\* C29: a call of the fetch wrapper while Enabled appends one info/network request
\* entry and then dispatches the underlying call; when that call settles, with the
\* manager still Enabled, one more entry is appended, info/network for a response
\* and error/network for a failure, with the id of the request entry, which is the
\* older of the two.
C29_RequestAndOutcome ==
    [][/\ (last'.op = "fetch" /\ isEnabled) =>
             LET c == calls'[Len(calls')]
             IN  /\ Len(last'.appended) = 1
                 /\ last'.appended[1].level = "info"
                 /\ last'.appended[1].category = "network"
                 /\ last'.appended[1].message = "API Request"
                 /\ last'.appended[1].requestId = c.rid
                 /\ c.dispatched = 1
                 /\ c.result = "pending"
       /\ (last'.op = "fetchSettle" /\ isEnabled) =>
             \A i \in 1..Len(calls) :
                 (calls[i].startedEnabled /\ calls'[i] # calls[i]) =>
                     /\ Len(last'.appended) = 1
                     /\ last'.appended[1].category = "network"
                     /\ last'.appended[1].level =
                           IF calls'[i].underlying = "response" THEN "info" ELSE "error"
                     /\ last'.appended[1].message =
                           IF calls'[i].underlying = "response" THEN "API Response"
                           ELSE "API Error"
                     /\ last'.appended[1].requestId = calls[i].rid
                     /\ \A k \in 1..Len(logs') :
                           (logs'[k].requestId = calls[i].rid
                               /\ logs'[k].message = "API Request") =>
                                 logs'[k].id < last'.appended[1].id]_vars

\* C30: while Enabled, a call of console.log, info, warn or error appends exactly one
\* system entry, at the level debug for log and at the level of the method for the
\* others, and then calls the method of the console captured at construction
\* exactly once.
C30_ConsoleMirrored ==
    [][\A method \in {"log", "info", "warn", "error"}, rest \in ConsoleRest :
          (ConsoleCall(method, rest) /\ isEnabled) =>
              /\ Len(last'.appended) = 1
              /\ last'.appended[1].category = "system"
              /\ last'.appended[1].level = IF method = "log" THEN "debug" ELSE method
              /\ last'.sunk = 1
              /\ last'.thrown = "none"]_vars

\* C31: a write through localStorage.setItem or document.cookie is performed exactly
\* once; while Enabled it appends exactly one info/state entry first, whatever
\* cycles of disableDebug and enableDebug came before, and while Disabled it
\* appends none.
C31_WritesMirrored ==
    last.op \in {"setItem", "cookie"} =>
        /\ last.written = 1
        /\ last.thrown = "none"
        /\ IF isEnabled
           THEN /\ Len(last.appended) = 1
                /\ last.appended[1].level = "info"
                /\ last.appended[1].category = "state"
           ELSE last.appended = <<>>

\* C32: when info() is called while Enabled, a callback that was unsubscribed
\* before, or is unsubscribed while the entry is being delivered, is not called
\* from then on; and when a callback is unsubscribed during the delivery, the call
\* returns without an exception and every callback that is registered when it
\* returns has been called exactly once with each entry the call appended.
C32_UnsubscribeIsLocal ==
    [][(last'.op = "info" /\ isEnabled) =>
          /\ \A k \in 1..Len(last'.delivered) :
                /\ last'.delivered[k][1] \in Rng(listeners)
                /\ \A j \in 1..(k - 1) :
                      /\ last'.delivered[j][1] = "Lself" => last'.delivered[k][1] # "Lself"
                      /\ last'.delivered[j][1] = "Lkick" => last'.delivered[k][1] # "L1"
          /\ listeners' # listeners =>
                /\ last'.thrown = "none"
                /\ \A l \in Rng(listeners') :
                      \A a \in 1..Len(last'.appended) :
                          Cardinality({k \in 1..Len(last'.delivered) :
                              last'.delivered[k] = <<l, last'.appended[a].id>>}) = 1]_vars

\* C33: setTokenLimit(provider, limit) leaves the provider with exactly that limit,
\* whatever limit it had, and changes neither another provider's limit nor the
\* events; a record changes no limit.
C33_SetLimitOverwrites ==
    [][/\ ulast'.op = "setLimit" =>
             LET provider == ulast'.data.provider
             IN  /\ DOMAIN limits' = (DOMAIN limits) \cup {provider}
                 /\ limits'[provider] = ulast'.limit
                 /\ \A q \in DOMAIN limits : q # provider => limits'[q] = limits[q]
                 /\ usageData' = usageData
       /\ ulast'.op = "record" => limits' = limits]_vars

\* a limit of 8 has been replaced by a limit of 2 while the other provider has a
\* limit and the ledger has events
C33_Witness ==
    /\ ulast.op = "setLimit"
    /\ ulast.replaced = 8
    /\ \E provider \in DOMAIN limits : limits[provider] = 2
    /\ DOMAIN limits = Providers
    /\ usageData # <<>>

\* The days, counted from the first day of the clock, of the events of the ledger
\* that are in the window.
WindowDays(timeRange) ==
    {usageData[i].timestamp \div Day :
        i \in {j \in 1..Len(usageData) : InWindow(Age(j), timeRange)}}

\* The days of a set in ascending order.
RECURSIVE Ascending(_)
Ascending(days) ==
    IF days = {} THEN <<>>
    ELSE LET first == CHOOSE d \in days : \A other \in days : d <= other
         IN  <<first>> \o Ascending(days \ {first})

\* C34: the daily series of a query has one value for each day with an event in
\* the window, in the order of the days, each the sum of totalTokens of that day's
\* events in the window; it has as many labels as values, and the values add up
\* to used.
C34_DailySeries ==
    ulast.op = "chart" =>
        LET days == Ascending(WindowDays(ulast.timeRange))
            values == ulast.chartData.values
        IN  /\ Len(values) = Len(days)
            /\ Len(ulast.chartData.labels) = Len(values)
            /\ \A k \in 1..Len(days) :
                  values[k] = TokensWhere(LAMBDA i : /\ InWindow(Age(i), ulast.timeRange)
                                                     /\ usageData[i].timestamp \div Day = days[k])
            /\ SumTo(values, Len(values)) = ulast.result.used

\* C35: however the switch of debug capture and the switch of timestamp logging are
\* thrown one after the other, once both are off the console methods are the
\* browser's own, and while capture is Disabled no console method is a wrapper of
\* the manager.
C35_ConsoleRestored ==
    /\ (~isEnabled /\ ~isLoggingEnabled) => console = "native"
    /\ ~isEnabled => console # "wrapper"

\* C36: a notification ends.  When a callback that logs when it is notified has been
\* called in an operation, the operation returns: the run of _log the callback
\* started does not call it again and again until the stack is used up.
C36_NotificationReturns ==
    (\E i \in 1..Len(last.delivered) : last.delivered[i][1] = "Lecho") =>
        last.thrown # "RangeError"

\* C37: clearLogs while Enabled leaves one entry in the buffer, the info/system
\* entry "Logs cleared", and calls every registered listener with it; while Disabled
\* it leaves the buffer empty and calls no listener.  Either way the lifecycle
\* state, the interceptors and the listeners are what they were.
C37_ClearLogsFrame ==
    [][last'.op = "clearLogs" =>
          /\ <<isEnabled', listeners', fetch', originalFetch', console', errorHandlers',
               setItemDepth', cookieWrapped', cleanupInterval', persisted'>>
             = <<isEnabled, listeners, fetch, originalFetch, console, errorHandlers,
                 setItemDepth, cookieWrapped, cleanupInterval, persisted>>
          /\ IF isEnabled
             THEN /\ Len(logs') = 1
                  /\ logs'[1].level = "info"
                  /\ logs'[1].category = "system"
                  /\ logs'[1].message = "Logs cleared"
                  /\ \A l \in Rng(listeners) : <<l, logs'[1].id>> \in Rng(last'.delivered)
             ELSE /\ logs' = <<>>
                  /\ last'.delivered = <<>>]_vars

====
